---- MODULE Spec2Model ----
(***************************************************************************)
(* Metro Ridership Impact Calculator (src/ridership.py).                   *)
(*                                                                         *)
(* The script is a Streamlit page: every change of a sidebar widget reruns *)
(* the whole script, which recomputes the impact record and the scenario   *)
(* table from the widget values.  The arithmetic is Python float           *)
(* arithmetic, i.e. IEEE-754 binary64 with round-to-nearest-even, and is   *)
(* modelled bit for bit: a float is a sign, a 53-bit mantissa held as a    *)
(* sequence of 15-bit limbs, and a binary exponent.                        *)
(***************************************************************************)
EXTENDS Integers, Sequences, FiniteSets, TLC

(***************************************************************************)
(* Natural numbers of arbitrary size: little-endian sequences of limbs in  *)
(* base 2^15, without leading zero limbs (zero is the empty sequence).     *)
(***************************************************************************)
LimbBits == 15

Base == 2^LimbBits

RECURSIVE BNorm(_)
BNorm(a) ==
  IF a = <<>> THEN a
  ELSE IF a[Len(a)] = 0 THEN BNorm(SubSeq(a, 1, Len(a) - 1)) ELSE a

RECURSIVE BFromInt(_)
BFromInt(n) ==
  IF n = 0 THEN <<>> ELSE <<n % Base>> \o BFromInt(n \div Base)

RECURSIVE BToInt(_)
BToInt(a) ==
  IF a = <<>> THEN 0 ELSE a[1] + Base * BToInt(Tail(a))

RECURSIVE BAddC(_, _, _)
BAddC(a, b, c) ==
  IF a = <<>> /\ b = <<>> THEN (IF c = 0 THEN <<>> ELSE <<c>>)
  ELSE IF b = <<>> /\ c = 0 THEN a
  ELSE IF a = <<>> /\ c = 0 THEN b
  ELSE LET la == IF a = <<>> THEN 0 ELSE a[1]
           lb == IF b = <<>> THEN 0 ELSE b[1]
           s  == la + lb + c
       IN  <<s % Base>> \o BAddC(IF a = <<>> THEN a ELSE Tail(a),
                                  IF b = <<>> THEN b ELSE Tail(b),
                                  s \div Base)

BAdd(a, b) == BAddC(a, b, 0)

\* a - b - c for a >= b + c, limb by limb with borrow c; not normalised.
RECURSIVE BSubC(_, _, _)
BSubC(a, b, c) ==
  IF a = <<>> THEN <<>>
  ELSE IF b = <<>> /\ c = 0 THEN a
  ELSE LET lb == IF b = <<>> THEN 0 ELSE b[1]
           d  == a[1] - lb - c
       IN  <<d % Base>> \o BSubC(Tail(a),
                                  IF b = <<>> THEN b ELSE Tail(b),
                                  IF d < 0 THEN 1 ELSE 0)

BSub(a, b) == BNorm(BSubC(a, b, 0))

\* -1, 0, 1 as a < b, a = b, a > b; i is the limb compared (from the top).
RECURSIVE BCmpAt(_, _, _)
BCmpAt(a, b, i) ==
  IF i = 0 THEN 0
  ELSE IF a[i] < b[i] THEN -1
  ELSE IF a[i] > b[i] THEN 1
  ELSE BCmpAt(a, b, i - 1)

BCmp(a, b) ==
  IF Len(a) < Len(b) THEN -1
  ELSE IF Len(a) > Len(b) THEN 1
  ELSE BCmpAt(a, b, Len(a))

\* a * s + c for a limb-sized s.
RECURSIVE BMulSmallC(_, _, _)
BMulSmallC(a, s, c) ==
  IF a = <<>> THEN (IF c = 0 THEN <<>> ELSE <<c>>)
  ELSE LET p == a[1] * s + c
       IN  <<p % Base>> \o BMulSmallC(Tail(a), s, p \div Base)

BMulSmall(a, s) == IF s = 0 THEN <<>> ELSE BMulSmallC(a, s, 0)

RECURSIVE BMulAcc(_, _)
BMulAcc(a, b) ==
  IF b = <<>> THEN <<>>
  ELSE LET rest == BMulAcc(a, Tail(b))
       IN  BAdd(BMulSmall(a, b[1]), IF rest = <<>> THEN rest ELSE <<0>> \o rest)

BMul(a, b) == IF a = <<>> THEN <<>> ELSE BMulAcc(a, b)

\* Quotient (not normalised) and remainder of a by a small s, from the top
\* limb down; r is the running remainder.
RECURSIVE BDivSmallR(_, _, _)
BDivSmallR(a, s, r) ==
  IF a = <<>> THEN [q |-> <<>>, r |-> r]
  ELSE LET n   == Len(a)
           cur == r * Base + a[n]
           lo  == BDivSmallR(SubSeq(a, 1, n - 1), s, cur % s)
       IN  [q |-> Append(lo.q, cur \div s), r |-> lo.r]

BDivNorm(d) == [q |-> BNorm(d.q), r |-> d.r]

BDivSmall(a, s) == BDivNorm(BDivSmallR(a, s, 0))

RECURSIVE IntBitLen(_)
IntBitLen(n) == IF n = 0 THEN 0 ELSE 1 + IntBitLen(n \div 2)

BitLen(a) ==
  IF a = <<>> THEN 0 ELSE LimbBits * (Len(a) - 1) + IntBitLen(a[Len(a)])

Zeros(k) == [i \in 1..k |-> 0]

\* a * 2^k
BShl(a, k) ==
  IF a = <<>> THEN a
  ELSE Zeros(k \div LimbBits) \o BMulSmall(a, 2^(k % LimbBits))

\* floor(a / 2^k)
BShr(a, k) ==
  IF k \div LimbBits >= Len(a) THEN <<>>
  ELSE BDivSmall(SubSeq(a, (k \div LimbBits) + 1, Len(a)), 2^(k % LimbBits)).q

BOdd(a) == a # <<>> /\ a[1] % 2 = 1

(***************************************************************************)
(* binary64.  A float is [s, m, e] with value (-1)^s * m * 2^e, where m is *)
(* zero (with s = 0, e = 0: the two zeros compare equal in Python and are  *)
(* one value here) or has exactly MantBits bits.  The magnitudes of this   *)
(* program stay far from the subnormal and the overflow range.             *)
(***************************************************************************)
MantBits == 53

FZero == [s |-> 0, m |-> <<>>, e |-> 0]

\* Rounding, last step: the mantissa q of exponent e, renormalised when the
\* round-up carried into a 54th bit.
FRoundPack(s, q, e) ==
  IF BitLen(q) > MantBits
    THEN [s |-> s, m |-> BShr(q, 1), e |-> e + 1]
    ELSE [s |-> s, m |-> q, e |-> e]

\* Rounding, the decision: q is M without its low sh bits and c compares the
\* bits dropped with one half unit; up on more than half, and on exactly half
\* when q is odd.
FRoundUp(s, q, e, c) ==
  FRoundPack(s, IF c > 0 \/ (c = 0 /\ BOdd(q)) THEN BAdd(q, <<1>>) ELSE q, e)

FRoundQuot(s, M, e, sh, q) ==
  FRoundUp(s, q, e + sh, BCmp(BSub(M, BShl(q, sh)), BShl(<<1>>, sh - 1)))

FRoundLen(s, M, e, L) ==
  IF L = 0 THEN FZero
  ELSE IF L <= MantBits
    THEN [s |-> s, m |-> BShl(M, MantBits - L), e |-> e - (MantBits - L)]
  ELSE FRoundQuot(s, M, e, L - MantBits, BShr(M, L - MantBits))

\* The float nearest to (-1)^s * M * 2^e, ties to the even mantissa.
FRound(s, M, e) == FRoundLen(s, M, e, BitLen(M))

IntAbs(n) == IF n < 0 THEN -n ELSE n

\* float(n) for an int n
FFromInt(n) == FRound(IF n < 0 THEN 1 ELSE 0, BFromInt(IntAbs(n)), 0)

\* n / d for ints n and d > 0 (Python's true division is correctly rounded:
\* the quotient is taken to 2^-GuardBits and a last bit records the remainder).
GuardBits == 75

FDivQuot(s, qr) ==
  FRound(s, BAdd(BShl(qr.q, 1), IF qr.r = 0 THEN <<>> ELSE <<1>>),
         -(GuardBits + 1))

FDivInt(n, d) ==
  FDivQuot(IF n < 0 THEN 1 ELSE 0,
           BDivSmall(BShl(BFromInt(IntAbs(n)), GuardBits), d))

FNeg(a) == IF a.m = <<>> THEN a ELSE [a EXCEPT !.s = 1 - a.s]

FAbs(a) == [a EXCEPT !.s = 0]

FMul(a, b) ==
  IF a.m = <<>> \/ b.m = <<>> THEN FZero
  ELSE FRound((a.s + b.s) % 2, BMul(a.m, b.m), a.e + b.e)

\* The sum of (-1)^sa * A * 2^e and (-1)^sb * B * 2^e, where c compares A
\* with B: magnitudes add under equal signs, and otherwise the smaller is
\* taken from the larger, whose sign the result has.
FAddAligned(sa, sb, A, B, e, c) ==
  FRound(IF sa = sb \/ c > 0 THEN sa ELSE sb,
         IF sa = sb THEN BAdd(A, B)
         ELSE IF c > 0 THEN BSub(A, B) ELSE BSub(B, A),
         e)

FAddScaled(sa, sb, A, B, e) == FAddAligned(sa, sb, A, B, e, BCmp(A, B))

FAddAt(a, b, e) ==
  FAddScaled(a.s, b.s, BShl(a.m, a.e - e), BShl(b.m, b.e - e), e)

FAdd(a, b) ==
  IF a.m = <<>> THEN b
  ELSE IF b.m = <<>> THEN a
  ELSE FAddAt(a, b, IF a.e < b.e THEN a.e ELSE b.e)

FSub(a, b) == FAdd(a, FNeg(b))

\* -1, 0, 1 as |a| < |b|, |a| = |b|, |a| > |b| (both normalised).
FCmpMag(a, b) ==
  IF a.m = <<>> THEN (IF b.m = <<>> THEN 0 ELSE -1)
  ELSE IF b.m = <<>> THEN 1
  ELSE IF a.e < b.e THEN -1
  ELSE IF a.e > b.e THEN 1
  ELSE BCmp(a.m, b.m)

FCmp(a, b) ==
  IF a.s # b.s THEN (IF a.s = 1 THEN -1 ELSE 1)
  ELSE IF a.s = 0 THEN FCmpMag(a, b) ELSE -FCmpMag(a, b)

FGt(a, b) == FCmp(a, b) > 0

FGe(a, b) == FCmp(a, b) >= 0

IntSigned(s, mag) == IF s = 1 THEN -mag ELSE mag

\* int(x): truncation toward zero
FTrunc(a) ==
  IntSigned(a.s, IF a.e >= 0 THEN BToInt(BShl(a.m, a.e))
                             ELSE BToInt(BShr(a.m, -a.e)))

\* The float a decimal literal n/d (d a power of ten) denotes.
FLit(n, d) == FDivInt(n, d)


(***************************************************************************)
(* The sidebar widgets (lines 31-81): minimum, maximum and initial value   *)
(* of each slider, the initial value and the step of the number input.     *)
(***************************************************************************)
CurrentRidershipDefault == 100000

CurrentRidershipStep == 10000

BaselineFrequencyMin == 1

BaselineFrequencyMax == 20

BaselineFrequencyDefault == 4

BaselineWaitMin == 2

BaselineWaitMax == 30

BaselineWaitDefault == 12

FreqImprovementMin == 0

FreqImprovementMax == 200

FreqImprovementDefault == 50

WaitReductionMin == 0

WaitReductionMax == 80

WaitReductionDefault == 30

CoverageImprovementMin == 0

CoverageImprovementMax == 100

CoverageImprovementDefault == 25

CostReductionMin == 0

CostReductionMax == 50

CostReductionDefault == 15

IntegrationImprovementMin == 0

IntegrationImprovementMax == 100

IntegrationImprovementDefault == 40

(***************************************************************************)
(* Bounds of the model.  A slider is explored at its initial value and at  *)
(* SliderSteps + 1 evenly spaced positions from its minimum to its         *)
(* maximum; the ridership input at zero, at one step below zero, and at    *)
(* its initial value and up to RidershipSteps steps above it.              *)
(***************************************************************************)
SliderSteps == 1

RidershipSteps == 1

SliderPositions(lo, hi, dflt) ==
  {lo + (n * (hi - lo)) \div SliderSteps : n \in 0..SliderSteps} \cup {dflt}

RidershipValues ==
  {CurrentRidershipDefault + n * CurrentRidershipStep :
     n \in 0..RidershipSteps}
  \cup {0, -CurrentRidershipStep}

BaselineFrequencyValues == {BaselineFrequencyDefault, BaselineFrequencyMax}

BaselineWaitValues == {BaselineWaitDefault, BaselineWaitMin}

FreqValues ==
  SliderPositions(FreqImprovementMin, FreqImprovementMax, FreqImprovementDefault)

WaitValues ==
  SliderPositions(WaitReductionMin, WaitReductionMax, WaitReductionDefault)

CoverageValues ==
  SliderPositions(CoverageImprovementMin, CoverageImprovementMax,
                  CoverageImprovementDefault)

CostValues ==
  SliderPositions(CostReductionMin, CostReductionMax, CostReductionDefault)

IntegrationValues ==
  SliderPositions(IntegrationImprovementMin, IntegrationImprovementMax,
                  IntegrationImprovementDefault)

(***************************************************************************)
(* Elasticity values from literature (lines 18-24).                        *)
(***************************************************************************)
ELASTICITIES ==
  [feeder_frequency    |-> FLit(5, 10),
   last_mile_wait_time |-> FNeg(FLit(8, 10)),
   service_availability |-> FLit(3, 10),
   feeder_cost         |-> FNeg(FLit(4, 10)),
   integration_quality |-> FLit(6, 10)]

\* (improvement / 100) * elasticity, the shape of lines 86-90
ElasticityImpact(improvement, elasticity) ==
  FMul(FDivInt(improvement, 100), elasticity)

\* Lines 86-90 with abs() forgotten: the negative elasticities keep their sign.
ImpactsUnderSigned(el, freq, wait, coverage, cost, integration) ==
  [freq_impact        |-> ElasticityImpact(freq, el.feeder_frequency),
   wait_impact        |-> ElasticityImpact(wait, el.last_mile_wait_time),
   coverage_impact    |-> ElasticityImpact(coverage, el.service_availability),
   cost_impact        |-> ElasticityImpact(cost, el.feeder_cost),
   integration_impact |-> ElasticityImpact(integration, el.integration_quality)]

\* Lines 86-90 under the elasticities el; abs() makes the two negative
\* elasticities positive.
ImpactsUnder(el, freq, wait, coverage, cost, integration) ==
  [freq_impact        |-> ElasticityImpact(freq, el.feeder_frequency),
   wait_impact        |-> ElasticityImpact(wait, FAbs(el.last_mile_wait_time)),
   coverage_impact    |-> ElasticityImpact(coverage, el.service_availability),
   cost_impact        |-> ElasticityImpact(cost, FAbs(el.feeder_cost)),
   integration_impact |-> ElasticityImpact(integration, el.integration_quality)]

\* Lines 86-90: the individual elasticity calculations.
IndividualImpacts(freq, wait, coverage, cost, integration) ==
  ImpactsUnder(ELASTICITIES, freq, wait, coverage, cost, integration)

\* Line 93: the sum, added left to right.
SumImpacts(im) ==
  FAdd(FAdd(FAdd(FAdd(im.freq_impact, im.wait_impact), im.coverage_impact),
            im.cost_impact),
       im.integration_impact)

\* Line 97 with the whole total damped, not only the part above the threshold.
DampedWhole(total_impact, knee, factor) ==
  IF FGt(total_impact, knee) THEN FMul(total_impact, factor) ELSE total_impact

\* Lines 96-97 with the threshold and the damping factor named.
DampedAbove(total_impact, knee, factor) ==
  IF FGt(total_impact, knee)
    THEN FAdd(knee, FMul(FSub(total_impact, knee), factor))
    ELSE total_impact

\* Lines 96-97 with the excess cut to 30% where the code keeps 70%.
DiminishingReturnsWeak(total_impact) ==
  DampedAbove(total_impact, FLit(5, 10), FLit(3, 10))

\* Lines 96-97 left out: no diminishing returns.
DiminishingReturnsNone(total_impact) == total_impact

\* Lines 96-97: diminishing returns for large improvements.
DiminishingReturns(total_impact) ==
  DampedAbove(total_impact, FLit(5, 10), FLit(7, 10))

\* Lines 93-97 with the sum returned undamped.
TotalImpactUnclamped(im) == SumImpacts(im)

\* Lines 93-97: total_impact, summed and then damped.
TotalImpact(im) == DiminishingReturns(SumImpacts(im))

\* value * 100 for each value returned as a percentage
PercentagesOf(im, total_impact, hundred) ==
  [freq_impact        |-> FMul(im.freq_impact, hundred),
   wait_impact        |-> FMul(im.wait_impact, hundred),
   coverage_impact    |-> FMul(im.coverage_impact, hundred),
   cost_impact        |-> FMul(im.cost_impact, hundred),
   integration_impact |-> FMul(im.integration_impact, hundred),
   total_impact       |-> total_impact,
   total_percentage   |-> FMul(total_impact, hundred)]

\* Lines 101 and 104-109: the percentages returned, each impact times 100.
ImpactPercentages(im, total_impact) ==
  PercentagesOf(im, total_impact, FFromInt(100))

ImpactOfImpacts(im) == ImpactPercentages(im, TotalImpact(im))

\* Lines 86-97 and 101, 104-109: the part of the result that the sliders
\* alone decide.
ImpactOfSliders(freq, wait, coverage, cost, integration) ==
  ImpactOfImpacts(IndividualImpacts(freq, wait, coverage, cost, integration))

\* Line 99: new_ridership, a float.
NewRidership(ridership, total_impact) ==
  FMul(FFromInt(ridership), FAdd(FFromInt(1), total_impact))

\* Line 100: absolute_increase, a float.
AbsoluteIncrease(new_ridership, ridership) ==
  FSub(new_ridership, FFromInt(ridership))

\* Lines 103-112 with new_ridership rounded to the nearest integer where the
\* code truncates.
ReturnedResultRounded(ridership, sp, new_ridership) ==
  [freq_impact        |-> sp.freq_impact,
   wait_impact        |-> sp.wait_impact,
   coverage_impact    |-> sp.coverage_impact,
   cost_impact        |-> sp.cost_impact,
   integration_impact |-> sp.integration_impact,
   total_percentage   |-> sp.total_percentage,
   new_ridership      |->
     FTrunc(IF new_ridership.s = 1 THEN FSub(new_ridership, FLit(5, 10))
                                   ELSE FAdd(new_ridership, FLit(5, 10))),
   absolute_increase  |-> FTrunc(AbsoluteIncrease(new_ridership, ridership))]

\* Lines 103-112: the dict returned; the two ridership figures pass through
\* int().
ReturnedResult(ridership, sp, new_ridership) ==
  [freq_impact        |-> sp.freq_impact,
   wait_impact        |-> sp.wait_impact,
   coverage_impact    |-> sp.coverage_impact,
   cost_impact        |-> sp.cost_impact,
   integration_impact |-> sp.integration_impact,
   total_percentage   |-> sp.total_percentage,
   new_ridership      |-> FTrunc(new_ridership),
   absolute_increase  |-> FTrunc(AbsoluteIncrease(new_ridership, ridership))]

\* Lines 99-112, given what lines 86-97 computed from the sliders.
RidershipResult(ridership, sp) ==
  ReturnedResult(ridership, sp, NewRidership(ridership, sp.total_impact))

\* Lines 84-112: calculate_ridership_impact() reads the widget values, which
\* are module globals; here they are its parameters.
calculate_ridership_impact(ridership, freq, wait, coverage, cost, integration) ==
  RidershipResult(ridership,
                  ImpactOfSliders(freq, wait, coverage, cost, integration))

\* calculate_ridership_impact tabulated over the input snapshots of the model,
\* so that the arithmetic is evaluated once per snapshot and not once per
\* transition: lines 86-97 once per slider setting, lines 99-112 once per
\* snapshot.
ImpactOfSlidersTable ==
  [freq \in FreqValues, wait \in WaitValues, coverage \in CoverageValues,
   cost \in CostValues, integration \in IntegrationValues |->
     ImpactOfSliders(freq, wait, coverage, cost, integration)]

ImpactTable ==
  [ridership \in RidershipValues, freq \in FreqValues, wait \in WaitValues,
   coverage \in CoverageValues, cost \in CostValues,
   integration \in IntegrationValues |->
     RidershipResult(ridership,
                     ImpactOfSlidersTable[freq, wait, coverage, cost, integration])]

(***************************************************************************)
(* Scenario comparison (lines 190-208).                                    *)
(***************************************************************************)
scenarios ==
  << [name |-> "Current",                   improvement |-> 0],
     [name |-> "Basic Improvement",         improvement |-> 15],
     [name |-> "Moderate Improvement",      improvement |-> 35],
     [name |-> "Comprehensive Improvement", improvement |-> 60] >>

\* Lines 200-203 with the multiplier 0.5 where the code has 0.4.
UniformImprovementHalf(ridership, improvement) ==
  [total_percentage |-> FMul(FFromInt(improvement), FLit(5, 10)),
   new_ridership    |->
     FTrunc(FMul(FFromInt(ridership),
                 FAdd(FFromInt(1), FMul(FFromInt(improvement), FLit(5, 1000)))))]

\* Lines 200-203: the record built for a scenario other than "Current".
UniformImprovement(ridership, improvement) ==
  [total_percentage |-> FMul(FFromInt(improvement), FLit(4, 10)),
   new_ridership    |->
     FTrunc(FMul(FFromInt(ridership),
                 FAdd(FFromInt(1), FMul(FFromInt(improvement), FLit(4, 1000)))))]

ScenarioImprovements == {scenarios[n].improvement : n \in DOMAIN scenarios}

\* UniformImprovement tabulated in the same way.
UniformImprovementTable ==
  [ridership \in RidershipValues, improvement \in ScenarioImprovements |->
     UniformImprovement(ridership, improvement)]

\* Lines 205-208 without the two conditionals: every row, "Current" too, shows
\* temp_results.
AppendedRowLive(sc, ridership, temp_results) ==
  [Scenario    |-> sc.name,
   Ridership   |-> temp_results.new_ridership,
   PctIncrease |-> temp_results.total_percentage]

\* Lines 205-208: the row appended, given temp_results.
AppendedRow(sc, ridership, temp_results) ==
  [Scenario    |-> sc.name,
   Ridership   |-> IF sc.name # "Current" THEN temp_results.new_ridership
                                          ELSE ridership,
   PctIncrease |-> IF sc.name # "Current" THEN temp_results.total_percentage
                                          ELSE 0]

\* Lines 198-208: one pass of the loop body.  For "Current" temp_results is
\* what calculate_ridership_impact() returns (line 200), which is the value
\* line 120 got from the same widget values, here live; lines 206-207 then do
\* not read it.
ScenarioRow(sc, ridership, live) ==
  AppendedRow(sc, ridership,
              IF sc.name = "Current"
                THEN live
                ELSE UniformImprovementTable[ridership, sc.improvement])

\* Lines 197-208: scenario_results starts empty on every run and gets one row
\* per scenario, in the order of the dict.
ScenarioResults(ridership, live) ==
  [n \in DOMAIN scenarios |-> ScenarioRow(scenarios[n], ridership, live)]

(***************************************************************************)
(* State: the widget values (module globals of the script) and what the    *)
(* last run of the script computed from them.                              *)
(***************************************************************************)
VARIABLES
  current_ridership,        \* line 31
  baseline_frequency,       \* line 38
  baseline_wait,            \* line 44
  freq_improvement,         \* line 53
  wait_reduction,           \* line 59
  coverage_improvement,     \* line 65
  cost_reduction,           \* line 71
  integration_improvement,  \* line 77
  results,                  \* line 120
  scenario_results          \* line 197

inputs ==
  <<current_ridership, baseline_frequency, baseline_wait, freq_improvement,
    wait_reduction, coverage_improvement, cost_reduction, integration_improvement>>

vars == <<inputs, results, scenario_results>>

\* Lines 197-208 with scenario_results kept across runs (line 197 not
\* executed again): each run appends its rows to those of the runs before.
RunScriptKeeping(ridership, live) ==
  /\ results' = live
  /\ scenario_results' = scenario_results \o ScenarioResults(ridership, live)

\* Lines 120 and 197-208: what one run of the script leaves in results and
\* scenario_results, where live is what calculate_ridership_impact() returns
\* for the widget values the run reads.
RunScript(ridership, live) ==
  /\ results' = live
  /\ scenario_results' = ScenarioResults(ridership, live)

\* The run that follows a change of a widget.
Rerun ==
  RunScript(current_ridership',
            ImpactTable[current_ridership', freq_improvement', wait_reduction',
                        coverage_improvement', cost_reduction',
                        integration_improvement'])

\* The first run, on the initial values.
FirstRun(ridership, live) ==
  /\ results = live
  /\ scenario_results = ScenarioResults(ridership, live)

\* The page as first served: every widget at its initial value, the script run
\* once.
Init ==
  /\ current_ridership = CurrentRidershipDefault
  /\ baseline_frequency = BaselineFrequencyDefault
  /\ baseline_wait = BaselineWaitDefault
  /\ freq_improvement = FreqImprovementDefault
  /\ wait_reduction = WaitReductionDefault
  /\ coverage_improvement = CoverageImprovementDefault
  /\ cost_reduction = CostReductionDefault
  /\ integration_improvement = IntegrationImprovementDefault
  /\ FirstRun(CurrentRidershipDefault,
              ImpactTable[CurrentRidershipDefault, FreqImprovementDefault,
                          WaitReductionDefault, CoverageImprovementDefault,
                          CostReductionDefault, IntegrationImprovementDefault])

\* One action per widget: the user sets it to another value and the script
\* runs again, top to bottom.
SetCurrentRidership ==
  \E v \in RidershipValues \ {current_ridership} :
    /\ current_ridership' = v
    /\ UNCHANGED <<baseline_frequency, baseline_wait, freq_improvement,
                   wait_reduction, coverage_improvement, cost_reduction,
                   integration_improvement>>
    /\ Rerun

SetBaselineFrequency ==
  \E v \in BaselineFrequencyValues \ {baseline_frequency} :
    /\ baseline_frequency' = v
    /\ UNCHANGED <<current_ridership, baseline_wait, freq_improvement,
                   wait_reduction, coverage_improvement, cost_reduction,
                   integration_improvement>>
    /\ Rerun

SetBaselineWait ==
  \E v \in BaselineWaitValues \ {baseline_wait} :
    /\ baseline_wait' = v
    /\ UNCHANGED <<current_ridership, baseline_frequency, freq_improvement,
                   wait_reduction, coverage_improvement, cost_reduction,
                   integration_improvement>>
    /\ Rerun

SetFreqImprovement ==
  \E v \in FreqValues \ {freq_improvement} :
    /\ freq_improvement' = v
    /\ UNCHANGED <<current_ridership, baseline_frequency, baseline_wait,
                   wait_reduction, coverage_improvement, cost_reduction,
                   integration_improvement>>
    /\ Rerun

SetWaitReduction ==
  \E v \in WaitValues \ {wait_reduction} :
    /\ wait_reduction' = v
    /\ UNCHANGED <<current_ridership, baseline_frequency, baseline_wait,
                   freq_improvement, coverage_improvement, cost_reduction,
                   integration_improvement>>
    /\ Rerun

SetCoverageImprovement ==
  \E v \in CoverageValues \ {coverage_improvement} :
    /\ coverage_improvement' = v
    /\ UNCHANGED <<current_ridership, baseline_frequency, baseline_wait,
                   freq_improvement, wait_reduction, cost_reduction,
                   integration_improvement>>
    /\ Rerun

SetCostReduction ==
  \E v \in CostValues \ {cost_reduction} :
    /\ cost_reduction' = v
    /\ UNCHANGED <<current_ridership, baseline_frequency, baseline_wait,
                   freq_improvement, wait_reduction, coverage_improvement,
                   integration_improvement>>
    /\ Rerun

SetIntegrationImprovement ==
  \E v \in IntegrationValues \ {integration_improvement} :
    /\ integration_improvement' = v
    /\ UNCHANGED <<current_ridership, baseline_frequency, baseline_wait,
                   freq_improvement, wait_reduction, coverage_improvement,
                   cost_reduction>>
    /\ Rerun

Next ==
  \/ SetCurrentRidership
  \/ SetBaselineFrequency
  \/ SetBaselineWait
  \/ SetFreqImprovement
  \/ SetWaitReduction
  \/ SetCoverageImprovement
  \/ SetCostReduction
  \/ SetIntegrationImprovement

Spec == Init /\ [][Next]_vars

(***************************************************************************)
(* calculate_ridership_impact() as a function of the module globals it     *)
(* reads, applied once to values drawn from a set that includes what the   *)
(* widgets do not produce: the function itself checks nothing.             *)
(***************************************************************************)
CalcRidershipValues == {-3, 3, CurrentRidershipDefault}

CalcFreqValues == {-100, 0, FreqImprovementDefault, 250}

CalcWaitValues == {-50, 0, WaitReductionDefault}

CalcCoverageValues == {0, CoverageImprovementDefault}

CalcCostValues == {0, CostReductionDefault}

CalcIntegrationValues == {0, IntegrationImprovementDefault}

\* results before line 120 has run
NotComputed == [computed |-> FALSE]

Computed == "absolute_increase" \in DOMAIN results

InitCalc ==
  /\ current_ridership \in CalcRidershipValues
  /\ baseline_frequency = BaselineFrequencyDefault
  /\ baseline_wait = BaselineWaitDefault
  /\ freq_improvement \in CalcFreqValues
  /\ wait_reduction \in CalcWaitValues
  /\ coverage_improvement \in CalcCoverageValues
  /\ cost_reduction \in CalcCostValues
  /\ integration_improvement \in CalcIntegrationValues
  /\ results = NotComputed
  /\ scenario_results = <<>>

\* Line 120: results = calculate_ridership_impact()
Calculate ==
  /\ ~Computed
  /\ results' = calculate_ridership_impact(current_ridership, freq_improvement,
                                           wait_reduction, coverage_improvement,
                                           cost_reduction, integration_improvement)
  /\ UNCHANGED <<inputs, scenario_results>>

NextCalc == Calculate

SpecCalc == InitCalc /\ [][NextCalc]_vars

(***************************************************************************)
(* The quantities the properties below are stated in, each computed from   *)
(* the widget values by the formula the property names.                    *)
(***************************************************************************)
Half == FLit(5, 10)

One == FFromInt(1)

Hundred == FFromInt(100)

\* S, the sum of the five raw impacts
RawTotalTable ==
  [freq \in FreqValues, wait \in WaitValues, coverage \in CoverageValues,
   cost \in CostValues, integration \in IntegrationValues |->
     SumImpacts(IndividualImpacts(freq, wait, coverage, cost, integration))]

RawTotal ==
  RawTotalTable[freq_improvement, wait_reduction, coverage_improvement,
                cost_reduction, integration_improvement]

\* S when S <= 0.5, and 0.5 + (S - 0.5) * 0.7 when S > 0.5
StatedClamp(S) ==
  IF FGt(S, Half) THEN FAdd(Half, FMul(FSub(S, Half), FLit(7, 10))) ELSE S

StatedClampTable ==
  [freq \in FreqValues, wait \in WaitValues, coverage \in CoverageValues,
   cost \in CostValues, integration \in IntegrationValues |->
     StatedClamp(RawTotalTable[freq, wait, coverage, cost, integration])]

StatedTotalPercentageTable ==
  [freq \in FreqValues, wait \in WaitValues, coverage \in CoverageValues,
   cost \in CostValues, integration \in IntegrationValues |->
     FMul(StatedClampTable[freq, wait, coverage, cost, integration], Hundred)]

StatedTotalPercentage ==
  StatedTotalPercentageTable[freq_improvement, wait_reduction,
                             coverage_improvement, cost_reduction,
                             integration_improvement]

SlidersAtDefault ==
  /\ freq_improvement = FreqImprovementDefault
  /\ wait_reduction = WaitReductionDefault
  /\ coverage_improvement = CoverageImprovementDefault
  /\ cost_reduction = CostReductionDefault
  /\ integration_improvement = IntegrationImprovementDefault

Float50 == FFromInt(50)

Float85 == FFromInt(85)

\* C1: the reported total is S when S <= 0.5 and 0.5 + (S - 0.5) * 0.7 when
\* S > 0.5, for every slider setting; S = 0.5 gives total_percentage 50.0 and
\* S = 1.0 gives 85.0.
C1_Clamp ==
  /\ results.total_percentage = StatedTotalPercentage
  /\ RawTotal = Half => results.total_percentage = Float50
  /\ RawTotal = One => results.total_percentage = Float85

\* A run on a setting whose raw impacts sum to 1.0, above the threshold.
C1_Witness == RawTotal = One /\ results.total_percentage = Float85

AllPercentages ==
  FreqValues \cup WaitValues \cup CoverageValues \cup CostValues
    \cup IntegrationValues

\* (pct / 100) * (tenths / 10) * 100: the percentage returned for a factor
\* whose elasticity has the magnitude tenths / 10.
FactorPercentageTable ==
  [pct \in AllPercentages, tenths \in {3, 4, 5, 6, 8} |->
     FMul(FMul(FDivInt(pct, 100), FLit(tenths, 10)), Hundred)]

IsPositive(a) == a.s = 0 /\ a.m # <<>>

Float25 == FFromInt(25)

Float24 == FFromInt(24)

Float7_5 == FLit(75, 10)

Float6 == FFromInt(6)

\* C2: each per-factor percentage is (pct / 100) * |elasticity| * 100 with the
\* magnitudes 0.5, 0.8, 0.3, 0.4, 0.6, so wait time and cost contribute a
\* positive impact for a positive input; 50/30/25/15/40 give 25.0, 24.0, 7.5,
\* 6.0, 24.0.
C2_FactorImpacts ==
  /\ results.freq_impact = FactorPercentageTable[freq_improvement, 5]
  /\ results.wait_impact = FactorPercentageTable[wait_reduction, 8]
  /\ results.coverage_impact = FactorPercentageTable[coverage_improvement, 3]
  /\ results.cost_impact = FactorPercentageTable[cost_reduction, 4]
  /\ results.integration_impact = FactorPercentageTable[integration_improvement, 6]
  /\ wait_reduction > 0 => IsPositive(results.wait_impact)
  /\ cost_reduction > 0 => IsPositive(results.cost_impact)
  /\ SlidersAtDefault =>
       /\ results.freq_impact = Float25
       /\ results.wait_impact = Float24
       /\ results.coverage_impact = Float7_5
       /\ results.cost_impact = Float6
       /\ results.integration_impact = Float24

\* A run with the two negative-elasticity factors at their maxima.
C2_Witness ==
  /\ wait_reduction = WaitReductionMax
  /\ cost_reduction = CostReductionMax
  /\ IsPositive(results.wait_impact)
  /\ IsPositive(results.cost_impact)

\* current_ridership * (1 + clamped total_impact), truncated toward zero
StatedNewRidershipTable ==
  [ridership \in RidershipValues, freq \in FreqValues, wait \in WaitValues,
   coverage \in CoverageValues, cost \in CostValues,
   integration \in IntegrationValues |->
     FTrunc(FMul(FFromInt(ridership),
                 FAdd(One, StatedClampTable[freq, wait, coverage, cost,
                                            integration])))]

StatedNewRidership ==
  StatedNewRidershipTable[current_ridership, freq_improvement, wait_reduction,
                          coverage_improvement, cost_reduction,
                          integration_improvement]

\* The float that the literal 75.55 denotes.
Float75_55 == FLit(7555, 100)

\* The float next above a positive float a whose mantissa is not all ones.
NextAbove(a) == [a EXCEPT !.m = BAdd(a.m, <<1>>)]

\* 75.55000000000001, the float next above 75.55
Float75_55Above == NextAbove(Float75_55)

\* C3 as stated: new_ridership is current_ridership * (1 + clamped
\* total_impact) truncated toward zero, for every input; 100000 with
\* 50/30/25/15/40 gives 175550 with total_percentage = 75.55.
C3_Stated ==
  /\ results.new_ridership = StatedNewRidership
  /\ (current_ridership = CurrentRidershipDefault /\ SlidersAtDefault) =>
       /\ results.new_ridership = 175550
       /\ results.total_percentage = Float75_55

\* C3, amended: new_ridership is current_ridership * (1 + clamped
\* total_impact), computed in floats and truncated toward zero, for every
\* input; 100000 with 50/30/25/15/40 gives 175550 with total_percentage =
\* 75.55000000000001, the float next above 75.55.
C3_NewRidership ==
  /\ results.new_ridership = StatedNewRidership
  /\ (current_ridership = CurrentRidershipDefault /\ SlidersAtDefault) =>
       /\ results.new_ridership = 175550
       /\ results.total_percentage = Float75_55Above

\* A run whose float product lies just below an integer, 127499.99999999999:
\* truncation gives 127499.
C3_Witness ==
  /\ current_ridership = CurrentRidershipDefault
  /\ freq_improvement = FreqImprovementMin
  /\ wait_reduction = WaitReductionMin
  /\ coverage_improvement = CoverageImprovementDefault
  /\ cost_reduction = CostReductionMax
  /\ integration_improvement = IntegrationImprovementMin
  /\ results.new_ridership = 127499

SlidersNotLowered ==
  /\ freq_improvement' >= freq_improvement
  /\ wait_reduction' >= wait_reduction
  /\ coverage_improvement' >= coverage_improvement
  /\ cost_reduction' >= cost_reduction
  /\ integration_improvement' >= integration_improvement

\* C5: a run on a snapshot that differs from the one before only in one
\* improvement percentage, which is larger, reports a total_percentage that
\* is greater or equal, also across the threshold (every step changes one
\* widget).
C5_Monotone ==
  [][(current_ridership' = current_ridership /\ SlidersNotLowered) =>
       FGe(results'.total_percentage, results.total_percentage)]_vars

\* A run on a setting above the threshold that is not above it with coverage
\* at its minimum: raising coverage crossed the threshold.
C5_Witness ==
  /\ coverage_improvement > CoverageImprovementMin
  /\ FGt(RawTotal, Half)
  /\ ~FGt(RawTotalTable[freq_improvement, wait_reduction,
                        CoverageImprovementMin, cost_reduction,
                        integration_improvement], Half)
  /\ FGt(results.total_percentage, Float50)

\* The five returned per-factor percentages, added in the order returned.
PercentageSum(r) ==
  FAdd(FAdd(FAdd(FAdd(r.freq_impact, r.wait_impact), r.coverage_impact),
            r.cost_impact),
       r.integration_impact)

\* The unclamped total_impact * 100
RawPercentageTable ==
  [freq \in FreqValues, wait \in WaitValues, coverage \in CoverageValues,
   cost \in CostValues, integration \in IntegrationValues |->
     FMul(RawTotalTable[freq, wait, coverage, cost, integration], Hundred)]

RawPercentage ==
  RawPercentageTable[freq_improvement, wait_reduction, coverage_improvement,
                     cost_reduction, integration_improvement]

\* C6 as stated: the five per-factor percentages sum to the unclamped
\* total_impact * 100; the sum equals total_percentage exactly when the
\* unclamped total is at most 0.5 and is strictly greater when it is above.
C6_Stated ==
  /\ PercentageSum(results) = RawPercentage
  /\ (PercentageSum(results) = results.total_percentage) <=> ~FGt(RawTotal, Half)
  /\ FGt(RawTotal, Half) => FGt(PercentageSum(results), results.total_percentage)

\* 2^-30
Tolerance == FRound(0, <<1>>, -30)

\* |a - b| <= 2^-30
Within(a, b) == FGe(Tolerance, FAbs(FSub(a, b)))

\* The unclamped total in thousandths, in exact arithmetic:
\* 1000 * (0.5 f + 0.8 w + 0.3 c + 0.4 k + 0.6 i) / 100.
ExactThousandths ==
  5 * freq_improvement + 8 * wait_reduction + 3 * coverage_improvement
    + 4 * cost_reduction + 6 * integration_improvement

\* C6, amended: the five per-factor percentages sum to the unclamped
\* total_impact * 100 within 2^-30 (the two are rounded differently); the sum
\* is within 2^-30 of total_percentage when the unclamped total, in exact
\* arithmetic, is at most 0.5, and is strictly greater than total_percentage
\* when it is above 0.5.
C6_PercentageSum ==
  /\ Within(PercentageSum(results), RawPercentage)
  /\ ExactThousandths <= 500 =>
       Within(PercentageSum(results), results.total_percentage)
  /\ ExactThousandths > 500 =>
       FGt(PercentageSum(results), results.total_percentage)

\* A run with the clamp active, after wait reduction was set to its maximum:
\* the breakdown sums to more than the headline.
C6_Witness ==
  /\ wait_reduction = WaitReductionMax
  /\ ExactThousandths > 500
  /\ FGt(RawTotal, Half)
  /\ FGt(PercentageSum(results), results.total_percentage)

\* improvement * 0.4 and int(current_ridership * (1 + improvement * 0.004))
StatedScenarioTable ==
  [ridership \in RidershipValues, improvement \in ScenarioImprovements |->
     [PctIncrease |-> FMul(FFromInt(improvement), FLit(4, 10)),
      Ridership   |->
        FTrunc(FMul(FFromInt(ridership),
                    FAdd(One, FMul(FFromInt(improvement), FLit(4, 1000)))))]]

\* C7: every row other than Current has percentage_increase = preset * 0.4
\* and ridership = int(current_ridership * (1 + preset * 0.004)), whatever
\* the five sliders are; at 100000 the 15% preset gives 6.0 and 106000 and
\* the 60% preset 24.0 and 124000.
C7_Presets ==
  /\ \A n \in DOMAIN scenarios :
       scenarios[n].name # "Current" =>
         /\ scenario_results[n].PctIncrease =
              StatedScenarioTable[current_ridership, scenarios[n].improvement].PctIncrease
         /\ scenario_results[n].Ridership =
              StatedScenarioTable[current_ridership, scenarios[n].improvement].Ridership
  /\ current_ridership = CurrentRidershipDefault =>
       /\ scenario_results[2].PctIncrease = Float6
       /\ scenario_results[2].Ridership = 106000
       /\ scenario_results[4].PctIncrease = Float24
       /\ scenario_results[4].Ridership = 124000

\* A run at 100000 with every slider moved off its initial value.
C7_Witness ==
  /\ current_ridership = CurrentRidershipDefault
  /\ freq_improvement # FreqImprovementDefault
  /\ wait_reduction # WaitReductionDefault
  /\ coverage_improvement # CoverageImprovementDefault
  /\ cost_reduction # CostReductionDefault
  /\ integration_improvement # IntegrationImprovementDefault
  /\ scenario_results[2].Ridership = 106000
  /\ scenario_results[4].Ridership = 124000

\* C8: the Current row shows current_ridership verbatim and 0, whatever the
\* live result for the same snapshot is.
C8_CurrentRow ==
  /\ scenario_results[1].Scenario = "Current"
  /\ scenario_results[1].Ridership = current_ridership
  /\ scenario_results[1].PctIncrease = 0

\* A run after slider changes whose live result differs from the Current row.
C8_Witness ==
  /\ freq_improvement = FreqImprovementMax
  /\ integration_improvement = IntegrationImprovementMax
  /\ results.new_ridership # current_ridership
  /\ results.total_percentage # FZero
  /\ scenario_results[1].Ridership = current_ridership

LiveAtInputs ==
  ImpactTable[current_ridership, freq_improvement, wait_reduction,
              coverage_improvement, cost_reduction, integration_improvement]

\* C9: results and the scenario table are the values that current_ridership
\* and the five improvement percentages determine, in every reachable state:
\* neither the two baseline widgets nor the runs before have a part in them.
C9_FunctionOfInputs ==
  /\ results = LiveAtInputs
  /\ scenario_results = ScenarioResults(current_ridership, LiveAtInputs)

\* A run with both baseline widgets and the ridership changed and the
\* sliders at their initial values.
C9_Witness ==
  /\ baseline_frequency # BaselineFrequencyDefault
  /\ baseline_wait # BaselineWaitDefault
  /\ current_ridership # CurrentRidershipDefault
  /\ SlidersAtDefault
  /\ results.total_percentage = Float75_55Above

\* The float that the literal 206.8 denotes.
Float206_8 == FLit(2068, 10)

\* C10: with the sliders in their ranges and current_ridership >= 0,
\* total_percentage is in [0, 206.8], new_ridership >= current_ridership and
\* absolute_increase >= 0.
C10_Bounded ==
  current_ridership >= 0 =>
    /\ FGe(results.total_percentage, FZero)
    /\ FGe(Float206_8, results.total_percentage)
    /\ results.new_ridership >= current_ridership
    /\ results.absolute_increase >= 0

\* A run with every slider at its maximum: the bound 206.8 is attained.
C10_Witness ==
  /\ current_ridership > 0
  /\ freq_improvement = FreqImprovementMax
  /\ wait_reduction = WaitReductionMax
  /\ coverage_improvement = CoverageImprovementMax
  /\ cost_reduction = CostReductionMax
  /\ integration_improvement = IntegrationImprovementMax
  /\ results.total_percentage = Float206_8

====
